---- MODULE Spec2Model ----
(***************************************************************************)
(* CommandLineOptionParser: registration of options, switches and unnamed  *)
(* (positional) parameters, and the left-to-right scan of                  *)
(* parseCommandLineArguments, for three revisions of the header:           *)
(*   "part_002"  src/unnamed/part_002  (one vector of unnamed parameters,  *)
(*               bool result, operator>> success as conversion result)     *)
(*   "hpp"       src/src/CommandLineOptionParser.hpp (two vectors, bool    *)
(*               result; src/unnamed/part_000 has the same parse code)     *)
(*   "part_003"  src/unnamed/part_003 lines 1-288 (std::invalid_argument,  *)
(*               conversion must end exactly at eof, std::optional; lines  *)
(*               289-468 hold the same parse code without std::optional)   *)
(* A std::string is a sequence of one-character strings, so that substr    *)
(* and the stream extraction are computed character by character.         *)
(* Every registration call binds a caller variable of its own: the n-th    *)
(* registerSwitch call binds <<"b", n>>, the n-th registerOption call      *)
(* <<"o", n>>, the n-th registerUnnamedParameter call <<"u", n>>.          *)
(***************************************************************************)
EXTENDS Integers, Sequences, FiniteSets, TLC

VARIABLES
  rev,                    \* which revision of the header is compiled
  vars,                   \* the caller's variables: name -> [type, val]
  m_flags,                \* std::map identifier -> Switch
  m_namedOptions,         \* std::map identifier -> Parameter (m_parserFunctions before part_003)
  m_mandatoryParameters,  \* std::vector<Parameter>
  m_optionalParameters,   \* std::vector<Parameter>
  m_unnamedParameters,    \* std::vector<UnnamedParameter> (part_002 only)
  args,                   \* the vector passed to parseCommandLineArguments
  i,                      \* the iterator i of the scan, as a 1-based index
  mandatoryParamIterator, \* 1-based index into the mandatory parameters
  optionalParamIterator,  \* 1-based index into the optional parameters
  pc,                     \* "idle", "scan" (inside the for loop), "done"
  result,                 \* how the call ended: [kind, what]
  before,                 \* vars as they were when parse was entered
  unnamedCalls,           \* the mandatory argument of every registerUnnamedParameter call so far
  stream                  \* the characters printUsage has written

vars_all == <<rev, vars, m_flags, m_namedOptions, m_mandatoryParameters,
              m_optionalParameters, m_unnamedParameters, args, i,
              mandatoryParamIterator, optionalParamIterator, pc, result, before,
              unnamedCalls, stream>>

registries == <<m_flags, m_namedOptions, m_mandatoryParameters,
                m_optionalParameters, m_unnamedParameters, unnamedCalls>>

scanVars == <<args, i, mandatoryParamIterator, optionalParamIterator, pc, result, before>>

-----------------------------------------------------------------------------
(* Bounds *)

MaxRegs == 2     \* registration calls before parsing
MaxTokens == 2   \* tokens after the program name
MaxValue == 12   \* option values of the round trip range over -MaxValue..MaxValue

-----------------------------------------------------------------------------
(* Revisions *)

Revisions == {"part_002", "hpp", "part_003"}

\* parseString throws unless the stream state is exactly eofbit
ThrowingRevisions == {"part_003"}

-----------------------------------------------------------------------------
(* Strings *)

Digits == {"0", "1", "2", "3", "4", "5", "6", "7", "8", "9"}

DigitValue(c) ==
  CASE c = "0" -> 0 [] c = "1" -> 1 [] c = "2" -> 2 [] c = "3" -> 3
    [] c = "4" -> 4 [] c = "5" -> 5 [] c = "6" -> 6 [] c = "7" -> 7
    [] c = "8" -> 8 [] c = "9" -> 9

DigitChar(d) == CHOOSE c \in Digits : DigitValue(c) = d

\* std::string::substr(pos, n), pos 0-based, pos <= size
substr(s, pos, n) ==
  SubSeq(s, pos + 1, IF pos + n > Len(s) THEN Len(s) ELSE pos + n)

\* std::string::substr(pos): the rest of the string
substrFrom(s, pos) == SubSeq(s, pos + 1, Len(s))

-----------------------------------------------------------------------------
(* Stream extraction: std::stringstream(valueAsString) >> value, value an  *)
(* int. num_get reads an optional sign and then decimal digits, stopping   *)
(* at the first other character; eofbit is set when the end of the string  *)
(* is hit while reading, failbit when no digit was read. Since C++11 a     *)
(* failed num_get stores 0; when the string is empty the sentry fails and  *)
(* nothing is stored. Tokens are too short to overflow an int.             *)

RECURSIVE DigitsEnd(_, _)
DigitsEnd(s, k) ==
  IF k <= Len(s) /\ s[k] \in Digits THEN DigitsEnd(s, k + 1) ELSE k

RECURSIVE DigitsNumber(_, _, _)
\* the number written by the digits s[a..b], most significant first
DigitsNumber(s, a, b) ==
  IF a > b THEN 0 ELSE 10 * DigitsNumber(s, a, b - 1) + DigitValue(s[b])

\* an extraction that takes no sign
ExtractUnsigned(s) ==
  IF Len(s) = 0
  THEN [stored |-> FALSE, value |-> 0, state |-> {"eofbit", "failbit"}]
  ELSE
    LET stop == DigitsEnd(s, 1)
        eof  == IF stop > Len(s) THEN {"eofbit"} ELSE {}
    IN IF stop = 1
       THEN [stored |-> TRUE, value |-> 0, state |-> eof \cup {"failbit"}]
       ELSE [stored |-> TRUE, value |-> DigitsNumber(s, 1, stop - 1),
             state |-> eof]

ExtractInt(s) ==
  IF Len(s) = 0
  THEN [stored |-> FALSE, value |-> 0, state |-> {"eofbit", "failbit"}]
  ELSE
    LET signed == s[1] \in {"-", "+"}
        first  == IF signed THEN 2 ELSE 1
        stop   == DigitsEnd(s, first)
        eof    == IF stop > Len(s) THEN {"eofbit"} ELSE {}
        n      == DigitsNumber(s, first, stop - 1)
    IN IF stop = first
       THEN [stored |-> TRUE, value |-> 0, state |-> eof \cup {"failbit"}]
       ELSE [stored |-> TRUE,
             value  |-> IF s[1] = "-" THEN 0 - n ELSE n,
             state  |-> eof]

-----------------------------------------------------------------------------
(* StringParsing::parseString. The result is [ok, val]: whether the call   *)
(* reports success (returns true / does not throw) and the value the bound *)
(* variable holds afterwards. old is the variable's value before the call. *)

Nothing == [has |-> FALSE, val |-> 0]
Some(v) == [has |-> TRUE, val |-> v]

\* (bool)(stream >> value): true unless failbit or badbit is set
parseStringBool(valueAsString, old) ==
  LET x == ExtractInt(valueAsString)
  IN [ok |-> "failbit" \notin x.state,
      val |-> IF x.stored THEN x.value ELSE old]

\* rdstate() != std::ios::eofbit throws; value was extracted in place
parseStringExact(valueAsString, old) ==
  LET x == ExtractInt(valueAsString)
  IN [ok |-> x.state = {"eofbit"},
      val |-> IF x.stored THEN x.value ELSE old]

\* std::optional: whatever was extracted is assigned
parseStringOptionalInPlace(valueAsString, old) ==
  LET t == parseStringExact(valueAsString, 0)
  IN [ok |-> t.ok, val |-> Some(t.val)]

\* std::optional: parse into a temporary, assign only when nothing was thrown
parseStringOptional(valueAsString, old) ==
  LET t == parseStringExact(valueAsString, 0)
  IN [ok |-> t.ok, val |-> IF t.ok THEN Some(t.val) ELSE old]

\* the std::string specialization
parseStringString(valueAsString, old) ==
  [ok |-> TRUE, val |-> valueAsString]

parseString(r, type, valueAsString, old) ==
  CASE type = "string"   -> parseStringString(valueAsString, old)
    [] type = "optional" -> parseStringOptional(valueAsString, old)
    [] type = "int"      -> IF r \in ThrowingRevisions
                            THEN parseStringExact(valueAsString, old)
                            ELSE parseStringBool(valueAsString, old)

-----------------------------------------------------------------------------
(* What the caller passes *)

Identifiers == {<<"s">>, <<"n">>}

ProgramName == <<"p">>

\* -s, -n, 7, -5, 7a
Tokens == {<<"-", "s">>, <<"-", "n">>, <<"7">>, <<"-", "5">>, <<"7", "a">>}

Types(r) == IF r \in ThrowingRevisions THEN {"int", "string", "optional"}
                                       ELSE {"int", "string"}

\* the value a caller variable holds when it is registered
InitialValues(type) ==
  CASE type = "bool"     -> BOOLEAN
    [] type = "int"      -> {3}
    [] type = "string"   -> {<<"d">>}
    [] type = "optional" -> {Nothing}

\* the variable bound by the next registration call of a kind ("b": switch,
\* "o": option, "u": unnamed parameter); it also serves as parameterName
NextVariable(kind) ==
  LET n == Cardinality({v \in DOMAIN vars : v[1] = kind}) + 1
  IN <<kind, DigitChar(n)>>

SeqsUpTo(S, n) == UNION {[1..k -> S] : k \in 0..n}

\* argv: the program name and up to MaxTokens tokens
ArgLists == {<<ProgramName>> \o t : t \in SeqsUpTo(Tokens, MaxTokens)}

-----------------------------------------------------------------------------
(* Registration *)

\* std::map::emplace: no insertion when the key is already present
emplace(m, key, value) ==
  IF key \in DOMAIN m THEN m ELSE m @@ (key :> value)

\* a vector filled at the front
push_front(v, x) == <<x>> \o v

\* std::vector::push_back
push_back(v, x) == Append(v, x)

registerOption(optionIdentifier, type, init) ==
  /\ pc = "idle"
  /\ Cardinality(DOMAIN vars) < MaxRegs
  /\ vars' = vars @@ (NextVariable("o") :> [type |-> type, val |-> init])
  /\ m_namedOptions' = emplace(m_namedOptions, optionIdentifier,
                               [parameter |-> NextVariable("o"),
                                name |-> NextVariable("o")])
  /\ UNCHANGED <<rev, stream, m_flags, m_mandatoryParameters, m_optionalParameters,
                 m_unnamedParameters, scanVars, unnamedCalls>>

registerSwitch(parameterIdentifier, init) ==
  /\ pc = "idle"
  /\ Cardinality(DOMAIN vars) < MaxRegs
  /\ vars' = vars @@ (NextVariable("b") :> [type |-> "bool", val |-> init])
  /\ m_flags' = emplace(m_flags, parameterIdentifier,
                        [flagPointer |-> NextVariable("b")])
  /\ UNCHANGED <<rev, stream, m_namedOptions, m_mandatoryParameters,
                 m_optionalParameters, m_unnamedParameters, scanVars,
                 unnamedCalls>>

registerUnnamedParameter(type, init, mandatory) ==
  LET p == [parameter |-> NextVariable("u"), name |-> NextVariable("u")]
  IN
  /\ pc = "idle"
  /\ Cardinality(DOMAIN vars) < MaxRegs
  /\ vars' = vars @@ (NextVariable("u") :> [type |-> type, val |-> init])
  /\ unnamedCalls' = Append(unnamedCalls, mandatory)
  /\ IF rev = "part_002"
     THEN /\ m_unnamedParameters' =
               push_back(m_unnamedParameters,
                         [parameter |-> p.parameter, name |-> p.name,
                          mandatory |-> mandatory])
          /\ UNCHANGED <<m_mandatoryParameters, m_optionalParameters>>
     ELSE /\ m_mandatoryParameters' =
               IF mandatory THEN push_back(m_mandatoryParameters, p)
                            ELSE m_mandatoryParameters
          /\ m_optionalParameters' =
               IF mandatory THEN m_optionalParameters
                            ELSE push_back(m_optionalParameters, p)
          /\ UNCHANGED m_unnamedParameters
  /\ UNCHANGED <<rev, stream, m_flags, m_namedOptions, scanVars>>

-----------------------------------------------------------------------------
(* parseCommandLineArguments(const std::vector<std::string>& args) *)

IsMandatory(p) == p.mandatory

\* part_002 splits m_unnamedParameters at the start of every parse
mandatoryParams ==
  IF rev = "part_002" THEN SelectSeq(m_unnamedParameters, IsMandatory)
                      ELSE m_mandatoryParameters

IsOptional(p) == ~p.mandatory

optionalParams ==
  IF rev = "part_002" THEN SelectSeq(m_unnamedParameters, IsOptional)
                      ELSE m_optionalParameters

\* i->substr(0, 1) == "-", but a digit after it makes a negative number
IsNamedUnlessNumber(token) ==
  /\ substr(token, 0, 1) = <<"-">>
  /\ ~(Len(token) >= 2 /\ token[2] \in Digits)

\* i->substr(0, 1) == "-"
IsNamed(token) == substr(token, 0, 1) = <<"-">>

\* i->substr(1)
optionIdentifier(token) == substrFrom(token, 1)

\* flag = true
SetFlag(flag) == TRUE

\* flag = !flag
Negate(flag) == ~flag

\* the bound parser function of a Parameter, applied to a token
parserFunction(p, token) ==
  parseString(rev, vars[p.parameter].type, token, vars[p.parameter].val)

\* what the exception's message carries; the bool revisions carry nothing
Message(what) == IF rev \in ThrowingRevisions THEN what ELSE <<>>

Return(kind, what) ==
  /\ pc' = "done"
  /\ result' = [kind |-> kind, what |-> Message(what)]

InLoop == pc = "scan" /\ i <= Len(args)

\* optional parameters matched first
MandatoryLeftAfterOptional ==
  /\ mandatoryParamIterator <= Len(mandatoryParams)
  /\ optionalParamIterator > Len(optionalParams)

\* mandatoryParamIterator != m_mandatoryParameters.end()
MandatoryLeft == mandatoryParamIterator <= Len(mandatoryParams)

\* optionalParamIterator != m_optionalParameters.end()
OptionalLeft == optionalParamIterator <= Len(optionalParams)

\* an entry that first clears every switch variable
ParseBeginClearingSwitches(a) ==
  /\ pc = "idle"
  /\ args' = a
  /\ i' = 2
  /\ mandatoryParamIterator' = 1
  /\ optionalParamIterator' = 1
  /\ before' = vars
  /\ pc' = "scan"
  /\ vars' = [v \in DOMAIN vars |->
               IF vars[v].type = "bool" THEN [vars[v] EXCEPT !.val = FALSE]
                                        ELSE vars[v]]
  /\ UNCHANGED <<rev, stream, registries, result>>

\* the entry of the call and the loop initialisation i = ++args.begin()
ParseBegin(a) ==
  /\ pc = "idle"
  /\ args' = a
  /\ i' = 2
  /\ mandatoryParamIterator' = 1
  /\ optionalParamIterator' = 1
  /\ before' = vars
  /\ pc' = "scan"
  /\ UNCHANGED <<rev, stream, vars, registries, result>>

ToggleSwitch ==
  /\ InLoop
  /\ IsNamed(args[i])
  /\ optionIdentifier(args[i]) \in DOMAIN m_flags
  /\ LET d == m_flags[optionIdentifier(args[i])].flagPointer
     IN vars' = [vars EXCEPT ![d].val = Negate(vars[d].val)]
  /\ i' = i + 1
  /\ UNCHANGED <<rev, stream, registries, args, mandatoryParamIterator,
                 optionalParamIterator, pc, result, before>>

\* the option map consulted whatever m_flags holds
IsOptionTokenInEitherCase(token) ==
  /\ IsNamed(token)
  /\ optionIdentifier(token) \in DOMAIN m_namedOptions

\* flagFindResult == m_flags.end() and paramFindResult != m_parserFunctions.end()
IsOptionToken(token) ==
  /\ IsNamed(token)
  /\ optionIdentifier(token) \notin DOMAIN m_flags
  /\ optionIdentifier(token) \in DOMAIN m_namedOptions

\* a following token that starts with '-' is not taken as the value
OptionValueUnlessDash ==
  /\ InLoop
  /\ IsOptionToken(args[i])
  /\ i + 1 <= Len(args)
  /\ LET p == m_namedOptions[optionIdentifier(args[i])]
         r == parserFunction(p, args[i + 1])
     IN IF IsNamed(args[i + 1])
        THEN /\ i' = i + 1
             /\ UNCHANGED <<vars, pc, result>>
        ELSE /\ vars' = [vars EXCEPT ![p.parameter].val = r.val]
             /\ IF r.ok
                THEN /\ i' = i + 2
                     /\ UNCHANGED <<pc, result>>
                ELSE /\ i' = i + 1
                     /\ Return("ConversionError", args[i + 1])
  /\ UNCHANGED <<rev, stream, registries, args, mandatoryParamIterator,
                 optionalParamIterator, before>>

\* ++i != args.end(): the next token is the option's value
OptionValue ==
  /\ InLoop
  /\ IsOptionToken(args[i])
  /\ i + 1 <= Len(args)
  /\ LET p == m_namedOptions[optionIdentifier(args[i])]
         r == parserFunction(p, args[i + 1])
     IN /\ vars' = [vars EXCEPT ![p.parameter].val = r.val]
        /\ IF r.ok
           THEN /\ i' = i + 2
                /\ UNCHANGED <<pc, result>>
           ELSE /\ i' = i + 1
                /\ Return("ConversionError", args[i + 1])
  /\ UNCHANGED <<rev, stream, registries, args, mandatoryParamIterator,
                 optionalParamIterator, before>>

\* an option at the end of the list passed over
OptionMissingValueIgnored ==
  /\ InLoop
  /\ IsOptionToken(args[i])
  /\ i + 1 > Len(args)
  /\ i' = i + 1
  /\ UNCHANGED <<rev, stream, vars, registries, args, mandatoryParamIterator,
                 optionalParamIterator, pc, result, before>>

\* ++i == args.end(): no token follows the option
OptionMissingValue ==
  /\ InLoop
  /\ IsOptionToken(args[i])
  /\ i + 1 > Len(args)
  /\ i' = IF rev \in ThrowingRevisions THEN i ELSE i + 1
  /\ Return("MissingValue", args[i])
  /\ UNCHANGED <<rev, stream, vars, registries, args, mandatoryParamIterator,
                 optionalParamIterator, before>>

UnknownOptionRollingBack ==
  /\ InLoop
  /\ IsNamed(args[i])
  /\ optionIdentifier(args[i]) \notin DOMAIN m_flags
  /\ optionIdentifier(args[i]) \notin DOMAIN m_namedOptions
  /\ Return("UnknownOption", args[i])
  /\ vars' = before
  /\ UNCHANGED <<rev, stream, registries, args, i, mandatoryParamIterator,
                 optionalParamIterator, before>>

UnknownOption ==
  /\ InLoop
  /\ IsNamed(args[i])
  /\ optionIdentifier(args[i]) \notin DOMAIN m_flags
  /\ optionIdentifier(args[i]) \notin DOMAIN m_namedOptions
  /\ Return("UnknownOption", args[i])
  /\ UNCHANGED <<rev, stream, vars, registries, args, i, mandatoryParamIterator,
                 optionalParamIterator, before>>

\* a matched mandatory parameter is taken out of the registry
MandatoryParameterConsumed ==
  /\ InLoop
  /\ ~IsNamed(args[i])
  /\ MandatoryLeft
  /\ LET p == mandatoryParams[mandatoryParamIterator]
         r == parserFunction(p, args[i])
     IN /\ vars' = [vars EXCEPT ![p.parameter].val = r.val]
        /\ IF r.ok
           THEN /\ i' = i + 1
                /\ UNCHANGED <<pc, result>>
           ELSE /\ i' = i
                /\ Return("ConversionError", args[i])
        /\ m_mandatoryParameters' = SelectSeq(m_mandatoryParameters, LAMBDA q : q # p)
        /\ m_unnamedParameters' = SelectSeq(m_unnamedParameters, LAMBDA q : q # p)
  /\ UNCHANGED <<rev, stream, m_flags, m_namedOptions, m_optionalParameters,
                 unnamedCalls, args, mandatoryParamIterator,
                 optionalParamIterator, before>>

\* mandatoryParamIterator++->parserFunction(*i)
MandatoryParameter ==
  /\ InLoop
  /\ ~IsNamed(args[i])
  /\ MandatoryLeft
  /\ LET p == mandatoryParams[mandatoryParamIterator]
         r == parserFunction(p, args[i])
     IN /\ vars' = [vars EXCEPT ![p.parameter].val = r.val]
        /\ IF r.ok
           THEN /\ i' = i + 1
                /\ UNCHANGED <<pc, result>>
           ELSE /\ i' = i
                /\ Return("ConversionError", args[i])
  /\ mandatoryParamIterator' = mandatoryParamIterator + 1
  /\ UNCHANGED <<rev, stream, registries, args, optionalParamIterator, before>>

\* optionalParamIterator++->parserFunction(*i)
OptionalParameter ==
  /\ InLoop
  /\ ~IsNamed(args[i])
  /\ ~MandatoryLeft
  /\ OptionalLeft
  /\ LET p == optionalParams[optionalParamIterator]
         r == parserFunction(p, args[i])
     IN /\ vars' = [vars EXCEPT ![p.parameter].val = r.val]
        /\ IF r.ok
           THEN /\ i' = i + 1
                /\ UNCHANGED <<pc, result>>
           ELSE /\ i' = i
                /\ Return("ConversionError", args[i])
  /\ optionalParamIterator' = optionalParamIterator + 1
  /\ UNCHANGED <<rev, stream, registries, args, mandatoryParamIterator, before>>

\* a surplus unnamed parameter passed over
UnrecognizedParameterIgnored ==
  /\ InLoop
  /\ ~IsNamed(args[i])
  /\ ~MandatoryLeft
  /\ ~OptionalLeft
  /\ i' = i + 1
  /\ UNCHANGED <<rev, stream, vars, registries, args, mandatoryParamIterator,
                 optionalParamIterator, pc, result, before>>

\* an unnamed parameter without registered counterpart
UnrecognizedParameter ==
  /\ InLoop
  /\ ~IsNamed(args[i])
  /\ ~MandatoryLeft
  /\ ~OptionalLeft
  /\ Return("UnrecognizedPositional", args[i])
  /\ UNCHANGED <<rev, stream, vars, registries, args, i, mandatoryParamIterator,
                 optionalParamIterator, before>>

\* the end of the call without the check of the mandatory parameters
ParseEndUnchecked ==
  /\ pc = "scan"
  /\ i > Len(args)
  /\ Return("Ok", <<>>)
  /\ UNCHANGED <<rev, stream, vars, registries, args, i, mandatoryParamIterator,
                 optionalParamIterator, before>>

\* i == args.end(), after the loop: check that all mandatory parameters are matched
ParseEnd ==
  /\ pc = "scan"
  /\ i = Len(args) + 1
  /\ IF MandatoryLeft
     THEN Return("MissingMandatoryParameter",
                 mandatoryParams[mandatoryParamIterator].name)
     ELSE Return("Ok", <<>>)
  /\ UNCHANGED <<rev, stream, vars, registries, args, i, mandatoryParamIterator,
                 optionalParamIterator, before>>

-----------------------------------------------------------------------------
(* The parser from construction on: registrations, then one parse *)

Init ==
  /\ rev \in Revisions
  /\ vars = <<>>
  /\ m_flags = <<>>
  /\ m_namedOptions = <<>>
  /\ m_mandatoryParameters = <<>>
  /\ m_optionalParameters = <<>>
  /\ m_unnamedParameters = <<>>
  /\ args = <<>>
  /\ i = 1
  /\ mandatoryParamIterator = 1
  /\ optionalParamIterator = 1
  /\ pc = "idle"
  /\ result = [kind |-> "none", what |-> <<>>]
  /\ before = <<>>
  /\ unnamedCalls = <<>>
  /\ stream = <<>>

RegisterOption ==
  \E id \in Identifiers, type \in Types(rev) :
    \E init \in InitialValues(type) : registerOption(id, type, init)

RegisterSwitch ==
  \E id \in Identifiers, init \in InitialValues("bool") :
    registerSwitch(id, init)

RegisterUnnamedParameter ==
  \E type \in Types(rev), mandatory \in BOOLEAN :
    \E init \in InitialValues(type) :
      registerUnnamedParameter(type, init, mandatory)

Parse == \E a \in ArgLists : ParseBegin(a)

Scan ==
  \/ ToggleSwitch
  \/ OptionValue
  \/ OptionMissingValue
  \/ UnknownOption
  \/ MandatoryParameter
  \/ OptionalParameter
  \/ UnrecognizedParameter
  \/ ParseEnd

Next ==
  \/ RegisterOption
  \/ RegisterSwitch
  \/ RegisterUnnamedParameter
  \/ Parse
  \/ Scan

Spec == Init /\ [][Next]_vars_all

-----------------------------------------------------------------------------
(* The first revision (part_001): option names are whole tokens, a bool    *)
(* variable registers a flag, there are no positional parameters, and the  *)
(* loop runs from args.begin().                                            *)

FirstRevision == "part_001"

\* the names a caller of the first revision registers
OptionNames == {<<"-">> \o id : id \in Identifiers}

\* registerOption<T>(parameter, optionName)
FirstRegisterOption ==
  /\ rev = FirstRevision
  /\ \E name \in OptionNames, type \in Types(rev) :
       \E init \in InitialValues(type) : registerOption(name, type, init)

\* registerOption<bool>(flag, optionName)
FirstRegisterFlag ==
  /\ rev = FirstRevision
  /\ \E name \in OptionNames, init \in InitialValues("bool") :
       registerSwitch(name, init)

\* the entry of the call and the loop initialisation i = args.begin()
FirstParseBegin(a) ==
  /\ rev = FirstRevision
  /\ pc = "idle"
  /\ args' = a
  /\ i' = 1
  /\ before' = vars
  /\ pc' = "scan"
  /\ UNCHANGED <<rev, stream, vars, registries, result,
                 mandatoryParamIterator, optionalParamIterator>>

\* flagFindResult != m_flags.end()
FirstToggleFlag ==
  /\ rev = FirstRevision
  /\ InLoop
  /\ args[i] \in DOMAIN m_flags
  /\ LET d == m_flags[args[i]].flagPointer
     IN vars' = [vars EXCEPT ![d].val = Negate(vars[d].val)]
  /\ i' = i + 1
  /\ UNCHANGED <<rev, stream, registries, args, mandatoryParamIterator,
                 optionalParamIterator, pc, result, before>>

FirstIsOption(token) ==
  /\ token \notin DOMAIN m_flags
  /\ token \in DOMAIN m_namedOptions

\* ++i != args.end(): the next token is the option's value
FirstOptionValue ==
  /\ rev = FirstRevision
  /\ InLoop
  /\ FirstIsOption(args[i])
  /\ i + 1 <= Len(args)
  /\ LET p == m_namedOptions[args[i]]
         r == parserFunction(p, args[i + 1])
     IN /\ vars' = [vars EXCEPT ![p.parameter].val = r.val]
        /\ IF r.ok
           THEN /\ i' = i + 2
                /\ UNCHANGED <<pc, result>>
           ELSE /\ i' = i + 1
                /\ Return("ConversionError", args[i + 1])
  /\ UNCHANGED <<rev, stream, registries, args, mandatoryParamIterator,
                 optionalParamIterator, before>>

\* ++i == args.end(): no token follows the option
FirstOptionMissingValue ==
  /\ rev = FirstRevision
  /\ InLoop
  /\ FirstIsOption(args[i])
  /\ i + 1 > Len(args)
  /\ i' = i + 1
  /\ Return("MissingValue", args[i])
  /\ UNCHANGED <<rev, stream, vars, registries, args, mandatoryParamIterator,
                 optionalParamIterator, before>>

\* the token is in neither map
FirstUnknownOption ==
  /\ rev = FirstRevision
  /\ InLoop
  /\ args[i] \notin DOMAIN m_flags
  /\ args[i] \notin DOMAIN m_namedOptions
  /\ Return("UnknownOption", args[i])
  /\ UNCHANGED <<rev, stream, vars, registries, args, i, mandatoryParamIterator,
                 optionalParamIterator, before>>

\* i == args.end(): return true
FirstParseEnd ==
  /\ rev = FirstRevision
  /\ pc = "scan"
  /\ i = Len(args) + 1
  /\ Return("Ok", <<>>)
  /\ UNCHANGED <<rev, stream, vars, registries, args, i, mandatoryParamIterator,
                 optionalParamIterator, before>>

FirstScan ==
  \/ FirstToggleFlag
  \/ FirstOptionValue
  \/ FirstOptionMissingValue
  \/ FirstUnknownOption
  \/ FirstParseEnd

-----------------------------------------------------------------------------
(* Every revision, called with any token in front: the caller need not     *)
(* pass the program name as token 0.                                       *)

AllRevisions == Revisions \cup {FirstRevision}

\* token 0 is the program name, a '-x' token, a number or any other string
AnyFrontArgLists ==
  {<<t>> \o a : t \in Tokens \cup {ProgramName}, a \in SeqsUpTo(Tokens, MaxTokens)}

InitAnyFront ==
  /\ rev \in AllRevisions
  /\ vars = <<>>
  /\ m_flags = <<>>
  /\ m_namedOptions = <<>>
  /\ m_mandatoryParameters = <<>>
  /\ m_optionalParameters = <<>>
  /\ m_unnamedParameters = <<>>
  /\ args = <<>>
  /\ i = 1
  /\ mandatoryParamIterator = 1
  /\ optionalParamIterator = 1
  /\ pc = "idle"
  /\ result = [kind |-> "none", what |-> <<>>]
  /\ before = <<>>
  /\ unnamedCalls = <<>>
  /\ stream = <<>>

ParseAnyFront ==
  /\ rev # FirstRevision
  /\ \E a \in AnyFrontArgLists : ParseBegin(a)

FirstParse == \E a \in AnyFrontArgLists : FirstParseBegin(a)

NextAnyFront ==
  \/ rev # FirstRevision /\ RegisterOption
  \/ rev # FirstRevision /\ RegisterSwitch
  \/ rev # FirstRevision /\ RegisterUnnamedParameter
  \/ ParseAnyFront
  \/ rev # FirstRevision /\ Scan
  \/ FirstRegisterOption
  \/ FirstRegisterFlag
  \/ FirstParse
  \/ FirstScan

SpecAnyFront == InitAnyFront /\ [][NextAnyFront]_vars_all

-----------------------------------------------------------------------------
(* Round trip of option values: options are registered, then the caller    *)
(* passes the program name, an option token and the decimal text of an     *)
(* integer.                                                                *)

RECURSIVE DecimalDigits(_)
DecimalDigits(n) ==
  IF n < 10 THEN <<DigitChar(n)>>
  ELSE DecimalDigits(n \div 10) \o <<DigitChar(n % 10)>>

\* the decimal text of an integer
Decimal(v) == IF v < 0 THEN <<"-">> \o DecimalDigits(0 - v) ELSE DecimalDigits(v)

RoundTripArgLists ==
  {<<ProgramName, <<"-">> \o id, Decimal(v)>> :
     id \in Identifiers, v \in (0 - MaxValue)..MaxValue}

ParseRoundTrip == \E a \in RoundTripArgLists : ParseBegin(a)

NextRoundTrip ==
  \/ RegisterOption
  \/ ParseRoundTrip
  \/ OptionValue
  \/ UnknownOption
  \/ ParseEnd

SpecRoundTrip == Init /\ [][NextRoundTrip]_vars_all

-----------------------------------------------------------------------------
(* printUsage(argv0) of the hpp and printUsage(argv0, stream,              *)
(* printDefaultValues) of part_003; part_002 has no printUsage. The text   *)
(* written is a sequence of characters, std::endl the character "\n".      *)

UsageRevisions == {"hpp", "part_003"}

endl == <<"\n">>

\* the characters of the registered identifiers in the order of their codes
CharOrder == <<"n", "s">>

CharCode(c) == CHOOSE k \in 1..Len(CharOrder) : CharOrder[k] = c

RECURSIVE StringLess(_, _)
\* std::less<std::string>: lexicographic
StringLess(a, b) ==
  IF b = <<>> THEN FALSE
  ELSE IF a = <<>> THEN TRUE
  ELSE IF a[1] # b[1] THEN CharCode(a[1]) < CharCode(b[1])
  ELSE StringLess(Tail(a), Tail(b))

RECURSIVE InKeyOrder(_)
\* the keys of a std::map in iteration order
InKeyOrder(keys) ==
  IF keys = {} THEN <<>>
  ELSE LET m == CHOOSE x \in keys : \A y \in keys \ {x} : StringLess(x, y)
       IN <<m>> \o InKeyOrder(keys \ {m})

RECURSIVE Flatten(_)
Flatten(texts) ==
  IF texts = <<>> THEN <<>> ELSE Head(texts) \o Flatten(Tail(texts))

RECURSIVE LastIndexOf(_, _)
\* the index of the last c in s, 0 if there is none
LastIndexOf(s, c) ==
  IF s = <<>> THEN 0
  ELSE IF s[Len(s)] = c THEN Len(s)
  ELSE LastIndexOf(SubSeq(s, 1, Len(s) - 1), c)

\* std::filesystem::path::filename
filename(path) == SubSeq(path, LastIndexOf(path, "/") + 1, Len(path))

\* std::filesystem::path::stem: the filename without its extension
stem(path) ==
  LET f == filename(path)
      dot == LastIndexOf(f, ".")
  IN IF dot <= 1 \/ f = <<".", ".">> THEN f ELSE SubSeq(f, 1, dot - 1)

\* the description text the caller passed when it registered the variable
description(variable) == <<"D">> \o variable

\* StringParsing::printValue of a registered variable
printValue(variable) ==
  LET v == vars[variable]
      label == <<",", " ", "d", "e", "f", "a", "u", "l", "t", ":">>
  IN CASE v.type = "int" -> label \o Decimal(v.val)
       [] v.type = "string" -> label \o v.val
       [] v.type = "optional" ->
            IF v.val.has THEN label \o Decimal(v.val.val) ELSE <<>>

\* ", default: " and the flag as text
printFlag(variable) ==
  <<",", " ", "d", "e", "f", "a", "u", "l", "t", ":", " ">>
    \o (IF vars[variable].val THEN <<"t", "r", "u", "e">>
                               ELSE <<"f", "a", "l", "s", "e">>)

\* the first line, with '[options...]' whatever is registered
usageLineWithOptions(argv0) ==
  (IF rev = "part_003" THEN <<"u", "s", "a", "g", "e", ":", " ">> ELSE <<>>)
    \o stem(argv0) \o <<" ">>
    \o Flatten([k \in 1..Len(m_mandatoryParameters) |->
                  <<"<">> \o m_mandatoryParameters[k].name \o <<">", " ">>])
    \o Flatten([k \in 1..Len(m_optionalParameters) |->
                  <<"[">> \o m_optionalParameters[k].name \o <<"]", " ">>])
    \o <<"[", "o", "p", "t", "i", "o", "n", "s", ".", ".", ".", "]">>
    \o endl

\* the first line: the program name, the unnamed parameters and, if there
\* are options or switches, '[options...]'
usageLine(argv0) ==
  (IF rev = "part_003" THEN <<"u", "s", "a", "g", "e", ":", " ">> ELSE <<>>)
    \o stem(argv0) \o <<" ">>
    \o Flatten([k \in 1..Len(m_mandatoryParameters) |->
                  <<"<">> \o m_mandatoryParameters[k].name \o <<">", " ">>])
    \o Flatten([k \in 1..Len(m_optionalParameters) |->
                  <<"[">> \o m_optionalParameters[k].name \o <<"]", " ">>])
    \o (IF m_namedOptions # <<>> \/ m_flags # <<>>
        THEN <<"[", "o", "p", "t", "i", "o", "n", "s", ".", ".", ".", "]">>
        ELSE <<>>)
    \o endl

\* the vector of TextualDescription (optionsAndDescriptions in the hpp)
textualDescriptions ==
  LET flags == InKeyOrder(DOMAIN m_flags)
      options == InKeyOrder(DOMAIN m_namedOptions)
  IN [k \in 1..Len(m_mandatoryParameters) |->
        LET p == m_mandatoryParameters[k]
        IN [optionString |-> <<"<">> \o p.name \o <<">">>,
            description |-> description(p.parameter),
            defaultValue |-> printValue(p.parameter)]]
     \o
     [k \in 1..Len(m_optionalParameters) |->
        LET p == m_optionalParameters[k]
        IN [optionString |-> <<"[">> \o p.name \o <<"]">>,
            description |-> description(p.parameter),
            defaultValue |-> printValue(p.parameter)]]
     \o
     [k \in 1..Len(flags) |->
        [optionString |-> <<"-">> \o flags[k],
         description |-> description(m_flags[flags[k]].flagPointer),
         defaultValue |-> printFlag(m_flags[flags[k]].flagPointer)]]
     \o
     [k \in 1..Len(options) |->
        LET p == m_namedOptions[options[k]]
        IN [optionString |-> <<"-">> \o options[k] \o <<" ", "<">> \o p.name \o <<">">>,
            description |-> description(p.parameter),
            defaultValue |-> printValue(p.parameter)]]

\* the greatest element, as std::max_element finds it
Max(S) == CHOOSE x \in S : \A y \in S : y <= x

\* std::left << std::setw(width) << text
setw(width, text) ==
  text \o [k \in 1..(IF width > Len(text) THEN width - Len(text) ELSE 0) |-> " "]

\* what one run of the for_each body writes for a description
describe(d, width, printDefaultValues) ==
  <<" ", " ">> \o setw(width, d.optionString) \o <<" ">> \o d.description
    \o (IF rev = "part_003"
        THEN IF printDefaultValues THEN d.defaultValue \o endl ELSE <<>>
        ELSE endl)

\* the block after the first line
descriptions(printDefaultValues) ==
  LET t == textualDescriptions
      maxOptionStringLength ==
        Max({Len(t[k].optionString) : k \in 1..Len(t)})
  IN IF t = <<>> THEN <<>>
     ELSE endl
          \o (IF rev = "part_003" THEN <<"o">> ELSE <<"O">>)
          \o <<"p", "t", "i", "o", "n", "s">> \o endl
          \o Flatten([k \in 1..Len(t) |->
                        describe(t[k], maxOptionStringLength, printDefaultValues)])

printUsage(argv0, printDefaultValues) ==
  /\ rev \in UsageRevisions
  /\ pc = "idle"
  /\ stream' = usageLine(argv0) \o descriptions(printDefaultValues)
  /\ pc' = "usage"
  /\ UNCHANGED <<rev, vars, registries, args, i, mandatoryParamIterator,
                 optionalParamIterator, result, before>>

\* argv[0] as the shell passes it
Argv0s == {ProgramName, <<"b", "/", "p", ".", "x">>}

\* the hpp has no printDefaultValues parameter
PrintUsage ==
  \E argv0 \in Argv0s :
    \E printDefaultValues \in (IF rev = "part_003" THEN BOOLEAN ELSE {FALSE}) :
      printUsage(argv0, printDefaultValues)

NextUsage ==
  \/ RegisterOption
  \/ RegisterSwitch
  \/ RegisterUnnamedParameter
  \/ PrintUsage

SpecUsage == Init /\ [][NextUsage]_vars_all

-----------------------------------------------------------------------------
(* std::optional variables (part_003): switches are registered, and        *)
(* options and unnamed parameters bound to std::optional<int> variables    *)
(* that are empty or hold a value.                                         *)

OptionalValues == {Nothing, Some(3)}

InitThrowing == Init /\ rev \in ThrowingRevisions

RegisterOptionalOption ==
  \E id \in Identifiers, init \in OptionalValues :
    registerOption(id, "optional", init)

RegisterOptionalUnnamedParameter ==
  \E mandatory \in BOOLEAN, init \in OptionalValues :
    registerUnnamedParameter("optional", init, mandatory)

NextOptional ==
  \/ RegisterSwitch
  \/ RegisterOptionalOption
  \/ RegisterOptionalUnnamedParameter
  \/ Parse
  \/ Scan

SpecOptional == InitThrowing /\ [][NextOptional]_vars_all

-----------------------------------------------------------------------------
(* Any vector, the empty one included. i = ++args.begin() on an empty      *)
(* vector increments the past-the-end iterator: i is then beyond           *)
(* args.end(), i != args.end() holds, and the loop body reads *i outside   *)
(* the vector. The behaviour is undefined: the build may crash, or read    *)
(* whatever the memory holds as a token and end in any way.                *)

EndKinds ==
  {"Ok", "MissingMandatoryParameter", "UnknownOption", "MissingValue",
   "ConversionError", "UnrecognizedPositional"}

\* *i with i beyond args.end()
ReadPastEnd ==
  /\ pc = "scan"
  /\ i > Len(args) + 1
  /\ pc' = "done"
  /\ \E kind \in EndKinds \cup {"Crash"} :
       result' = [kind |-> kind, what |-> <<>>]
  /\ UNCHANGED <<rev, stream, vars, registries, args, i, mandatoryParamIterator,
                 optionalParamIterator, before>>

AnyArgLists == ArgLists \cup {<<>>}

ParseAny == \E a \in AnyArgLists : ParseBegin(a)

NextAny ==
  \/ RegisterOption
  \/ RegisterSwitch
  \/ RegisterUnnamedParameter
  \/ ParseAny
  \/ Scan
  \/ ReadPastEnd

SpecAny == Init /\ [][NextAny]_vars_all

-----------------------------------------------------------------------------
(* Repeated options: switches and options are registered, then the caller  *)
(* passes the program name and two groups, each an option token with a     *)
(* value or a single '-x' token.                                           *)

RepeatGroups ==
  {<<<<"-">> \o id, v>> : id \in Identifiers, v \in {<<"7">>, <<"a">>}}
    \cup {<<<<"-">> \o id>> : id \in Identifiers}

RepeatArgLists ==
  {<<ProgramName>> \o g \o h : g \in RepeatGroups, h \in RepeatGroups}

ParseRepeat == \E a \in RepeatArgLists : ParseBegin(a)

NextRepeat ==
  \/ RegisterOption
  \/ RegisterSwitch
  \/ ParseRepeat
  \/ ToggleSwitch
  \/ OptionValue
  \/ OptionMissingValue
  \/ UnknownOption
  \/ UnrecognizedParameter
  \/ ParseEnd

SpecRepeat == Init /\ [][NextRepeat]_vars_all

-----------------------------------------------------------------------------
(* Several parse calls on one parser: switches and unnamed parameters are  *)
(* registered, and after a call has returned the caller may register more  *)
(* and call again.                                                         *)

\* parseCommandLineArguments has returned to the caller
ReturnToCaller ==
  /\ pc = "done"
  /\ pc' = "idle"
  /\ UNCHANGED <<rev, stream, vars, registries, args, i, mandatoryParamIterator,
                 optionalParamIterator, result, before>>

AgainArgLists ==
  {<<ProgramName>> \o t : t \in SeqsUpTo({<<"7">>, <<"-", "s">>}, MaxTokens)}

ParseAgain == \E a \in AgainArgLists : ParseBegin(a)

NextAgain ==
  \/ RegisterSwitch
  \/ RegisterUnnamedParameter
  \/ ParseAgain
  \/ ToggleSwitch
  \/ UnknownOption
  \/ MandatoryParameter
  \/ OptionalParameter
  \/ UnrecognizedParameter
  \/ ParseEnd
  \/ ReturnToCaller

SpecAgain == Init /\ [][NextAgain]_vars_all

-----------------------------------------------------------------------------
(* Vocabulary of the properties, stated from the token list and the        *)
(* registration calls alone.                                               *)

Done == pc = "done"
Succeeded == pc = "done" /\ result.kind = "Ok"

StartsWithDash(token) == Len(token) >= 1 /\ token[1] = "-"
Remainder(token) == Tail(token)

\* a whole decimal numeral: an optional sign and at least one digit
IsNumeral(token) ==
  LET body == IF Len(token) >= 1 /\ token[1] \in {"-", "+"} THEN Tail(token)
                                                            ELSE token
  IN Len(body) >= 1 /\ \A k \in 1..Len(body) : body[k] \in Digits

RECURSIVE Magnitude(_)
Magnitude(body) ==
  IF body = <<>> THEN 0
  ELSE 10 * Magnitude(SubSeq(body, 1, Len(body) - 1)) + DigitValue(body[Len(body)])

NumeralValue(token) ==
  IF token[1] = "-" THEN 0 - Magnitude(Tail(token))
  ELSE IF token[1] = "+" THEN Magnitude(Tail(token))
  ELSE Magnitude(token)

\* a token the destination type can take as a whole
Convertible(type, token) == type = "string" \/ IsNumeral(token)

\* the value a destination of the type holds after taking the token
Conversion(type, token) ==
  CASE type = "string"   -> token
    [] type = "int"      -> NumeralValue(token)
    [] type = "optional" -> Some(NumeralValue(token))

\* a token '-x' with x a registered option identifier and no switch identifier
NamesOption(token) ==
  /\ StartsWithDash(token)
  /\ Remainder(token) \in DOMAIN m_namedOptions
  /\ Remainder(token) \notin DOMAIN m_flags

RECURSIVE ClassifiedFrom(_, _)
\* the indices of a, from k on, of the tokens the scan classifies: every
\* token but the one that follows an option token as its value
ClassifiedFrom(a, k) ==
  IF k > Len(a) THEN {}
  ELSE {k} \cup ClassifiedFrom(a, IF NamesOption(a[k]) THEN k + 2 ELSE k + 1)

Classified(a) == ClassifiedFrom(a, 2)

\* the classified tokens that are positional, in order
PositionalIndices(a) == {k \in Classified(a) : ~StartsWithDash(a[k])}

RECURSIVE Ascending(_)
Ascending(S) ==
  IF S = {} THEN <<>>
  ELSE LET m == CHOOSE x \in S : \A y \in S : x <= y
       IN <<m>> \o Ascending(S \ {m})

PositionalTokens(a) ==
  LET idx == Ascending(PositionalIndices(a))
  IN [j \in 1..Len(idx) |-> a[idx[j]]]

\* the variable bound by the n-th registerUnnamedParameter call
Unnamed(n) == <<"u", DigitChar(n)>>

\* the calls with mandatory = flag, in registration order
CallsWith(flag) ==
  Ascending({n \in 1..Len(unnamedCalls) : unnamedCalls[n] = flag})

\* matching order: mandatory calls in registration order, then optional ones
MatchingOrder ==
  LET o == CallsWith(TRUE) \o CallsWith(FALSE)
  IN [j \in 1..Len(o) |-> Unnamed(o[j])]

NumMandatory == Len(CallsWith(TRUE))
NumOptional == Len(CallsWith(FALSE))

-----------------------------------------------------------------------------
\* C1: with k mandatory and no optional positionals registered, a token list
\* of the program name and exactly k convertible tokens not starting with '-'
\* parses successfully, and the variable of the j-th registered mandatory
\* positional holds the conversion of the j-th of those tokens.
C1_Case ==
  /\ Done
  /\ NumOptional = 0
  /\ Len(args) = 1 + NumMandatory
  /\ \A j \in 1..NumMandatory :
       /\ ~StartsWithDash(args[j + 1])
       /\ Convertible(vars[Unnamed(j)].type, args[j + 1])

C1_MandatoryInRegistrationOrder ==
  C1_Case =>
    /\ result.kind = "Ok"
    /\ \A j \in 1..NumMandatory :
         vars[Unnamed(j)].val = Conversion(vars[Unnamed(j)].type, args[j + 1])

C1_Witness ==
  /\ C1_Case
  /\ NumMandatory = 2
  /\ args[2] # args[3]
  /\ vars[Unnamed(1)].val # before[Unnamed(1)].val

-----------------------------------------------------------------------------
\* C2: whatever the interleaving of mandatory and optional registrations, a
\* successful parse gives the j-th positional token to the j-th parameter of
\* the matching order (mandatory ones in registration order, then optional
\* ones in registration order), and no optional parameter's variable is
\* written while a mandatory parameter's variable is still untouched.
Written(v) == vars[v] # before[v]

C2_TokenReaches(j) ==
  LET v == MatchingOrder[j]
      token == PositionalTokens(args)[j]
  IN Convertible(vars[v].type, token) =>
       vars[v].val = Conversion(vars[v].type, token)

C2_MandatoryBeforeOptional ==
  /\ Succeeded =>
       /\ Len(PositionalTokens(args)) <= Len(MatchingOrder)
       /\ \A j \in 1..Len(PositionalTokens(args)) : C2_TokenReaches(j)
  /\ pc \in {"scan", "done"} =>
       \A o \in 1..Len(unnamedCalls) :
         (~unnamedCalls[o] /\ Written(Unnamed(o))) =>
           \A m \in 1..Len(unnamedCalls) :
             unnamedCalls[m] => Written(Unnamed(m))

\* an optional positional registered before a mandatory one, both filled
C2_Witness ==
  /\ Succeeded
  /\ unnamedCalls = <<FALSE, TRUE>>
  /\ Len(PositionalTokens(args)) = 2
  /\ args[2] # args[3]
  /\ Written(Unnamed(1))
  /\ Written(Unnamed(2))

-----------------------------------------------------------------------------
\* C3: after a successful parse the variable of every registered switch s
\* holds its value from before the parse if '-s' was classified an even
\* number of times, and the negation of that value if an odd number of times.
SwitchOccurrences(id) ==
  Cardinality({k \in Classified(args) : args[k] = <<"-">> \o id})

C3_SwitchParity ==
  Succeeded =>
    \A id \in DOMAIN m_flags :
      LET b == m_flags[id].flagPointer
      IN vars[b].val = IF SwitchOccurrences(id) % 2 = 0
                       THEN before[b].val
                       ELSE ~before[b].val

\* a switch given twice, and a switch given once
C3_Witness ==
  /\ Succeeded
  /\ \E id \in DOMAIN m_flags : SwitchOccurrences(id) = 2
                                /\ ~before[m_flags[id].flagPointer].val

C3_WitnessOdd ==
  /\ Succeeded
  /\ \E id \in DOMAIN m_flags : SwitchOccurrences(id) = 1

-----------------------------------------------------------------------------
\* C4: for an option bound to an int variable and every v in the range,
\* parsing <<program name, '-n', decimal text of v>> succeeds and leaves the
\* variable equal to v.
C4_Case(v) ==
  /\ Done
  /\ Len(args) = 3
  /\ NamesOption(args[2])
  /\ vars[m_namedOptions[Remainder(args[2])].parameter].type = "int"
  /\ args[3] = Decimal(v)

C4_OptionRoundTrip ==
  \A v \in (0 - MaxValue)..MaxValue :
    C4_Case(v) =>
      /\ result.kind = "Ok"
      /\ vars[m_namedOptions[Remainder(args[2])].parameter].val = v

\* a negative value of two digits
C4_Witness == C4_Case(0 - MaxValue) /\ Succeeded

-----------------------------------------------------------------------------
\* C5: when the scan stands on the last token of the list and that token is
\* '-x' with x a registered option identifier and no switch identifier, the
\* parse ends there with MissingValue and no variable is written.
C5_Case ==
  /\ pc = "scan"
  /\ i = Len(args)
  /\ NamesOption(args[i])

C5_Step ==
  C5_Case => /\ pc' = "done"
             /\ result'.kind = "MissingValue"
             /\ vars' = vars

C5_OptionWithoutValue == [][C5_Step]_vars_all

\* an option token at the end, after another token
C5_Witness ==
  /\ Done
  /\ result.kind = "MissingValue"
  /\ Len(args) = 3
  /\ NamesOption(args[3])
  /\ Classified(args) = {2, 3}

-----------------------------------------------------------------------------
\* C6: a token the scan stands on that starts with '-' is never given to a
\* positional parameter; when its remainder is neither a registered switch
\* nor a registered option, the parse ends there with UnknownOption and
\* writes nothing, even when positional slots are unfilled and the token is
\* a negative number.
UnnamedVariables == {v \in DOMAIN vars : v[1] = "u"}

C6_Case ==
  /\ pc = "scan"
  /\ i <= Len(args)
  /\ StartsWithDash(args[i])

C6_Step ==
  C6_Case =>
    /\ \A v \in UnnamedVariables : vars'[v] = vars[v]
    /\ (/\ Remainder(args[i]) \notin DOMAIN m_flags
        /\ Remainder(args[i]) \notin DOMAIN m_namedOptions)
       => /\ pc' = "done"
          /\ result'.kind = "UnknownOption"
          /\ vars' = vars

C6_DashIsNeverPositional == [][C6_Step]_vars_all

\* '-5' refused although an int positional is still unfilled
C6_Witness ==
  /\ Done
  /\ result.kind = "UnknownOption"
  /\ args[i] = <<"-", "5">>
  /\ \E n \in 1..Len(unnamedCalls) :
       /\ vars[Unnamed(n)].type = "int"
       /\ ~Written(Unnamed(n))
  /\ Len(PositionalTokens(SubSeq(args, 1, i - 1))) < Len(unnamedCalls)

-----------------------------------------------------------------------------
\* C7: for an int destination, in every revision, a single positional token
\* converts if and only if the whole token is a numeral: otherwise the parse
\* ends with ConversionError, and '7' succeeds and stores 7.
C7_Case ==
  /\ Done
  /\ Len(args) = 2
  /\ ~StartsWithDash(args[2])
  /\ unnamedCalls = <<TRUE>>
  /\ vars[Unnamed(1)].type = "int"

C7_WholeTokenConversion ==
  C7_Case =>
    IF IsNumeral(args[2])
    THEN result.kind = "Ok" /\ vars[Unnamed(1)].val = NumeralValue(args[2])
    ELSE result.kind = "ConversionError"

\* the same in the revision that requires the stream to end at eof
C7_WholeTokenConversionExact ==
  (C7_Case /\ rev \in ThrowingRevisions) =>
    IF IsNumeral(args[2])
    THEN result.kind = "Ok" /\ vars[Unnamed(1)].val = NumeralValue(args[2])
    ELSE result.kind = "ConversionError"

-----------------------------------------------------------------------------
\* C8: a parse that meets no error at a token ends with
\* MissingMandatoryParameter exactly when fewer positional tokens were given
\* than mandatory positionals are registered; the error is reported only
\* after the whole list was scanned and (where the error carries a message)
\* names the first unfilled mandatory positional in registration order.
TokenErrors ==
  {"UnknownOption", "MissingValue", "ConversionError", "UnrecognizedPositional"}

C8_Missing == Len(PositionalTokens(args)) < NumMandatory

C8_MissingMandatory ==
  Done =>
    /\ result.kind \in TokenErrors \cup {"Ok", "MissingMandatoryParameter"}
    /\ result.kind = "Ok" => ~C8_Missing
    /\ result.kind = "MissingMandatoryParameter" =>
         /\ C8_Missing
         /\ i = Len(args) + 1
         /\ rev \in ThrowingRevisions =>
              result.what = MatchingOrder[Len(PositionalTokens(args)) + 1]

\* the second of two mandatory positionals is the one reported
C8_Witness ==
  /\ Done
  /\ rev \in ThrowingRevisions
  /\ result.kind = "MissingMandatoryParameter"
  /\ NumMandatory = 2
  /\ Len(PositionalTokens(args)) = 1
  /\ result.what = Unnamed(2)

-----------------------------------------------------------------------------
\* C9: with k mandatory and o optional positionals registered, when the scan
\* stands on a positional token after k + o positional tokens were assigned,
\* the parse ends there with UnrecognizedPositional and writes nothing; and
\* with string variables and positional tokens only, a parse of n tokens
\* succeeds exactly when k <= n <= k + o.
C9_Case ==
  /\ pc = "scan"
  /\ i <= Len(args)
  /\ ~StartsWithDash(args[i])
  /\ Len(PositionalTokens(SubSeq(args, 1, i - 1))) >= NumMandatory + NumOptional

C9_Step ==
  C9_Case => /\ pc' = "done"
             /\ result'.kind = "UnrecognizedPositional"
             /\ vars' = vars

C9_OnlyPositional ==
  /\ \A v \in UnnamedVariables : vars[v].type = "string"
  /\ \A k \in 2..Len(args) : ~StartsWithDash(args[k])

C9_Count ==
  (Done /\ C9_OnlyPositional) =>
    (result.kind = "Ok" <=>
       (NumMandatory <= Len(args) - 1 /\ Len(args) - 1 <= NumMandatory + NumOptional))

C9_SurplusPositional == [][C9_Step]_vars_all /\ []C9_Count

\* one optional positional filled, then a surplus token
C9_Witness ==
  /\ Done
  /\ result.kind = "UnrecognizedPositional"
  /\ NumMandatory + NumOptional >= 1
  /\ Len(PositionalTokens(SubSeq(args, 1, i - 1))) = NumMandatory + NumOptional
  /\ \A n \in 1..Len(unnamedCalls) : Written(Unnamed(n))

-----------------------------------------------------------------------------
\* C10: after a successful parse, every variable whose option, switch or
\* positional parameter was matched by no token holds the value it held
\* when the parse was entered.
MatchedSwitchVariables ==
  {m_flags[id].flagPointer : id \in {x \in DOMAIN m_flags : SwitchOccurrences(x) >= 1}}

OptionOccurrences(id) ==
  Cardinality({k \in Classified(args) :
                 args[k] = <<"-">> \o id /\ NamesOption(args[k])})

MatchedOptionVariables ==
  {m_namedOptions[id].parameter :
     id \in {x \in DOMAIN m_namedOptions : OptionOccurrences(x) >= 1}}

MatchedUnnamedVariables ==
  {MatchingOrder[j] :
     j \in {n \in 1..Len(MatchingOrder) : n <= Len(PositionalTokens(args))}}

Unmatched ==
  DOMAIN vars \
    (MatchedSwitchVariables \cup MatchedOptionVariables \cup MatchedUnnamedVariables)

C10_UnmatchedKeepValue ==
  Succeeded => \A v \in Unmatched : vars[v] = before[v]

\* one variable written by the parse, another bound and left alone
C10_Witness ==
  /\ Succeeded
  /\ \E v \in DOMAIN vars : Written(v)
  /\ \E v \in Unmatched :
       \/ \E id \in DOMAIN m_flags : m_flags[id].flagPointer = v /\ before[v].val
       \/ \E id \in DOMAIN m_namedOptions : m_namedOptions[id].parameter = v
       \/ \E n \in 1..Len(unnamedCalls) : ~unnamedCalls[n] /\ Unnamed(n) = v

-----------------------------------------------------------------------------
\* C11: when parse fails at token index j, every variable written or toggled
\* by the tokens below j holds the value those tokens gave it, and no token
\* above j has an effect. (Amended: but for the variable of the option or
\* positional whose conversion fails at j, which that conversion overwrites.)
Failed == Done /\ result.kind \in TokenErrors

\* the index of the classified token at which the parse failed
FailIndex ==
  IF result.kind = "MissingValue" THEN Len(args)
  ELSE IF i \in Classified(args) THEN i ELSE i - 1

\* the tokens below the failing one
Below == SubSeq(args, 1, FailIndex - 1)

TogglesIn(a, id) ==
  Cardinality({k \in Classified(a) : a[k] = <<"-">> \o id})

\* the indices in a of the option tokens that name the option id
OptionIndicesIn(a, id) ==
  {k \in Classified(a) : a[k] = <<"-">> \o id /\ NamesOption(a[k]) /\ k < Len(a)}

\* the variable holds what the token gives a variable of its type
Took(v, token) ==
  Convertible(vars[v].type, token) => vars[v].val = Conversion(vars[v].type, token)

\* the variable holds what the tokens of a, and nothing else, gave it
HoldsEffectOf(a, v) ==
  IF \E id \in DOMAIN m_flags : m_flags[id].flagPointer = v
  THEN LET id == CHOOSE x \in DOMAIN m_flags : m_flags[x].flagPointer = v
       IN vars[v].val = IF TogglesIn(a, id) % 2 = 0 THEN before[v].val
                                                   ELSE ~before[v].val
  ELSE IF \E id \in DOMAIN m_namedOptions :
            m_namedOptions[id].parameter = v /\ OptionIndicesIn(a, id) # {}
  THEN LET id == CHOOSE x \in DOMAIN m_namedOptions : m_namedOptions[x].parameter = v
       IN Took(v, a[Max(OptionIndicesIn(a, id)) + 1])
  ELSE IF \E n \in 1..Len(MatchingOrder) :
            MatchingOrder[n] = v /\ n <= Len(PositionalTokens(a))
  THEN LET n == CHOOSE x \in 1..Len(MatchingOrder) : MatchingOrder[x] = v
       IN Took(v, PositionalTokens(a)[n])
  ELSE vars[v] = before[v]

\* the variable the failing token was converted into, if any
FailingVariables ==
  IF result.kind # "ConversionError" THEN {}
  ELSE IF NamesOption(args[FailIndex])
       THEN {m_namedOptions[Remainder(args[FailIndex])].parameter}
       ELSE {MatchingOrder[Len(PositionalTokens(Below)) + 1]}

\* the variables the tokens below the failing one wrote or toggled
WrittenBelow ==
  {v \in DOMAIN vars :
     \/ \E id \in DOMAIN m_flags :
          m_flags[id].flagPointer = v /\ TogglesIn(Below, id) >= 1
     \/ \E id \in DOMAIN m_namedOptions :
          m_namedOptions[id].parameter = v /\ OptionIndicesIn(Below, id) # {}
     \/ \E n \in 1..Len(MatchingOrder) :
          MatchingOrder[n] = v /\ n <= Len(PositionalTokens(Below))}

C11_NoRollbackAtAll ==
  Failed => \A v \in WrittenBelow : HoldsEffectOf(Below, v)

C11_FirstErrorEnds ==
  Failed => \A v \in DOMAIN vars \ FailingVariables : HoldsEffectOf(Below, v)

\* an option written, then a switch toggled, then a failure: nothing undone
C11_Witness ==
  /\ Failed
  /\ FailIndex = 5
  /\ \E v \in WrittenBelow : v \notin FailingVariables /\ Written(v)
  /\ \E id \in DOMAIN m_flags : TogglesIn(Below, id) = 1

-----------------------------------------------------------------------------
\* C12: token 0 is skipped by parse in every revision: whatever it is, the
\* scan never stands on it, so it toggles no switch, is consumed by no
\* option, fills no positional and causes no error; a list of token 0 alone
\* changes no variable and reports no token error.
C12_TokenZeroSkipped ==
  /\ pc = "scan" => i >= 2
  /\ Done /\ Len(args) = 1 => vars = before /\ result.kind \notin TokenErrors

-----------------------------------------------------------------------------
\* C13: when registerOption (or registerSwitch) is called twice with the same
\* identifier, the map keeps one entry and the last registration wins: a
\* later parse of '-<identifier>' writes (or toggles) the variable of the
\* last registration and leaves the variable of the first unchanged.
RegisteredAs(kind) == {v \in DOMAIN vars : v[1] = kind}

\* all registrations of the kind, at least two, named the one identifier
SameIdentifier(kind, map) ==
  Cardinality(RegisteredAs(kind)) >= 2 /\ Cardinality(DOMAIN map) = 1

FirstRegistered(kind) == <<kind, DigitChar(1)>>
LastRegistered(kind) == <<kind, DigitChar(Cardinality(RegisteredAs(kind)))>>

C13_LastRegistrationWins ==
  Succeeded =>
    /\ SameIdentifier("o", m_namedOptions) =>
         \A id \in DOMAIN m_namedOptions :
           OptionIndicesIn(args, id) # {} =>
             /\ Took(LastRegistered("o"), args[Max(OptionIndicesIn(args, id)) + 1])
             /\ vars[FirstRegistered("o")] = before[FirstRegistered("o")]
    /\ SameIdentifier("b", m_flags) =>
         \A id \in DOMAIN m_flags :
           TogglesIn(args, id) = 1 =>
             /\ vars[LastRegistered("b")].val = ~before[LastRegistered("b")].val
             /\ vars[FirstRegistered("b")] = before[FirstRegistered("b")]

-----------------------------------------------------------------------------
\* C14: parse does not mutate the registries: no step from the entry of a
\* parse call to its return, successful or failed, changes the option map,
\* the switch map or the positional sequences; every call starts matching at
\* the first mandatory positional, so in every call, whatever the calls
\* before it did, the j-th positional token reaches the j-th positional in
\* matching order.
C14_Restarted ==
  Succeeded =>
    \A j \in 1..Len(PositionalTokens(args)) :
      Took(MatchingOrder[j], PositionalTokens(args)[j])

C14_Step ==
  /\ pc # "idle" \/ pc' # "idle" => UNCHANGED registries
  /\ pc = "idle" /\ pc' = "scan" =>
       mandatoryParamIterator' = 1 /\ optionalParamIterator' = 1

C14_ParseLeavesRegistries == [][C14_Step]_vars_all /\ []C14_Restarted

\* a call that succeeds and matches a positional token after an earlier
\* call has failed on an unknown option and another has written a variable
C14_Witness ==
  /\ Succeeded
  /\ Len(PositionalTokens(args)) >= 1
  /\ \E v \in DOMAIN vars : before[v].val \notin InitialValues(vars[v].type)
  /\ <<"-", "s">> \in {args[k] : k \in 1..Len(args)}
  /\ m_flags # <<>>

-----------------------------------------------------------------------------
\* C15: the first line printUsage writes contains '[options...]' if and only
\* if at least one option or at least one switch is registered; registered
\* positionals alone never cause it.
Printed == pc = "usage"

Contains(s, sub) ==
  \E k \in 0..(Len(s) - Len(sub)) : SubSeq(s, k + 1, k + Len(sub)) = sub

RECURSIVE FirstLine(_)
\* the characters before the first line break
FirstLine(s) ==
  IF s = <<>> \/ s[1] = "\n" THEN <<>> ELSE <<s[1]>> \o FirstLine(Tail(s))

Marker == <<"[", "o", "p", "t", "i", "o", "n", "s", ".", ".", ".", "]">>

C15_OptionsMarker ==
  Printed =>
    (Contains(FirstLine(stream), Marker) <=> m_namedOptions # <<>> \/ m_flags # <<>>)

C15_Witness ==
  /\ Printed
  /\ m_flags # <<>>
  /\ Len(m_mandatoryParameters) = 1
  /\ Contains(FirstLine(stream), Marker)

-----------------------------------------------------------------------------
\* C16: after the first line printUsage writes exactly one line for every
\* registered item, holding the item's token form ('<name>', '[name]', '-id',
\* '-id <paramName>'), and every line ends with a line break, whether or not
\* default values are requested: the number of description lines is the
\* number of registered positionals, switches and options.
RECURSIVE Lines(_)
\* the lines of a text that a line break ends
Lines(s) ==
  IF "\n" \notin {s[k] : k \in 1..Len(s)} THEN <<>>
  ELSE <<FirstLine(s)>> \o Lines(SubSeq(s, Len(FirstLine(s)) + 2, Len(s)))

\* what follows the last line break
Unterminated(s) == SubSeq(s, LastIndexOf(s, "\n") + 1, Len(s))

\* the lines written for the items: those indented by two blanks
DescriptionLines ==
  SelectSeq(Lines(stream), LAMBDA l : Len(l) >= 2 /\ l[1] = " " /\ l[2] = " ")

TokenForms ==
  {<<"<">> \o m_mandatoryParameters[k].name \o <<">">> :
     k \in 1..Len(m_mandatoryParameters)}
  \cup {<<"[">> \o m_optionalParameters[k].name \o <<"]">> :
          k \in 1..Len(m_optionalParameters)}
  \cup {<<"-">> \o id : id \in DOMAIN m_flags}
  \cup {<<"-">> \o id \o <<" ", "<">> \o m_namedOptions[id].name \o <<">">> :
          id \in DOMAIN m_namedOptions}

NumRegistered ==
  Len(m_mandatoryParameters) + Len(m_optionalParameters)
    + Cardinality(DOMAIN m_flags) + Cardinality(DOMAIN m_namedOptions)

C16_OneLinePerItem ==
  Printed =>
    /\ Unterminated(stream) = <<>>
    /\ Len(DescriptionLines) = NumRegistered
    /\ \A form \in TokenForms :
         \E k \in 1..Len(DescriptionLines) :
           Contains(DescriptionLines[k], <<" ", " ">> \o form \o <<" ">>)

-----------------------------------------------------------------------------
\* C17: when the scan stands on an option token that is not the last token,
\* the step gives the one following token to the option's conversion whatever
\* it is, a '-x' token of a registered switch or option included: no other
\* variable changes (no switch is toggled, no positional filled), the
\* positional iterators stay, and the scan goes on at the token after the
\* value, or ends with ConversionError.
C17_Case ==
  /\ pc = "scan"
  /\ i < Len(args)
  /\ NamesOption(args[i])

C17_Step ==
  C17_Case =>
    LET v == m_namedOptions[Remainder(args[i])].parameter
        value == args[i + 1]
    IN /\ \A w \in DOMAIN vars \ {v} : vars'[w] = vars[w]
       /\ mandatoryParamIterator' = mandatoryParamIterator
       /\ optionalParamIterator' = optionalParamIterator
       /\ Convertible(vars[v].type, value) =>
            vars'[v].val = Conversion(vars[v].type, value) /\ pc' = "scan"
       /\ pc' = "scan" => i' = i + 2
       /\ pc' # "scan" => pc' = "done" /\ result'.kind = "ConversionError"

C17_OptionTakesNextToken == [][C17_Step]_vars_all

\* the token of a registered switch taken as the value of a string option
C17_Witness ==
  /\ Succeeded
  /\ Len(args) = 3
  /\ NamesOption(args[2])
  /\ StartsWithDash(args[3])
  /\ Remainder(args[3]) \in DOMAIN m_flags
  /\ vars[m_namedOptions[Remainder(args[2])].parameter].val = args[3]
  /\ \A id \in DOMAIN m_flags :
       vars[m_flags[id].flagPointer] = before[m_flags[id].flagPointer]

-----------------------------------------------------------------------------
\* C18: when an identifier is registered both as a switch and as an option,
\* the token '-<identifier>' is always the switch: the step on it toggles the
\* switch's variable and moves to the next token, consuming nothing, and from
\* the entry of parse on the option's variable is never written.
InBothMaps == DOMAIN m_flags \cap DOMAIN m_namedOptions

C18_Step ==
  \A id \in InBothMaps :
    pc = "scan" /\ i <= Len(args) /\ args[i] = <<"-">> \o id =>
      LET b == m_flags[id].flagPointer
      IN /\ vars' = [vars EXCEPT ![b].val = ~vars[b].val]
         /\ i' = i + 1
         /\ pc' = "scan"

C18_OptionUntouched ==
  pc \in {"scan", "done"} =>
    \A id \in InBothMaps :
      vars[m_namedOptions[id].parameter] = before[m_namedOptions[id].parameter]

C18_SwitchBeforeOption == [][C18_Step]_vars_all /\ []C18_OptionUntouched

\* the token is followed by a number, which is then scanned as a positional
C18_Witness ==
  /\ Done
  /\ Len(args) = 3
  /\ \E id \in InBothMaps :
       /\ args[2] = <<"-">> \o id
       /\ vars[m_flags[id].flagPointer].val = ~before[m_flags[id].flagPointer].val
  /\ args[3] = <<"7">>
  /\ result.kind = "UnrecognizedPositional"

-----------------------------------------------------------------------------
\* C19: a token converted into a std::optional variable is accepted exactly
\* when the underlying type accepts it, and the variable then holds the
\* converted value; otherwise the parse ends with ConversionError and the
\* variable keeps the value, empty or not, that it had before the token.

\* the variable and the token of the conversion the next step performs
C19_Conversions ==
  IF pc # "scan" \/ i > Len(args) THEN {}
  ELSE IF NamesOption(args[i])
  THEN IF i < Len(args)
       THEN {<<m_namedOptions[Remainder(args[i])].parameter, args[i + 1]>>}
       ELSE {}
  ELSE IF StartsWithDash(args[i]) THEN {}
  ELSE IF mandatoryParamIterator <= Len(mandatoryParams)
  THEN {<<mandatoryParams[mandatoryParamIterator].parameter, args[i]>>}
  ELSE IF optionalParamIterator <= Len(optionalParams)
  THEN {<<optionalParams[optionalParamIterator].parameter, args[i]>>}
  ELSE {}

C19_Step ==
  \A c \in C19_Conversions :
    vars[c[1]].type = "optional" =>
      IF Convertible("int", c[2])
      THEN vars'[c[1]].val = Some(Conversion("int", c[2])) /\ pc' = "scan"
      ELSE /\ pc' = "done"
           /\ result'.kind = "ConversionError"
           /\ vars'[c[1]] = vars[c[1]]

C19_OptionalConversion == [][C19_Step]_vars_all

\* a variable that held a value keeps it when '7a' is refused
C19_Witness ==
  /\ Done
  /\ result.kind = "ConversionError"
  /\ \E v \in FailingVariables :
       /\ vars[v].type = "optional"
       /\ vars[v].val = Some(3)
  /\ \E k \in 1..Len(args) : args[k] = <<"7", "a">>

-----------------------------------------------------------------------------
\* C20: for every token list, the empty one included, the scan position is
\* never beyond the end of the list and the token read is always one of the
\* list, so the scan ends; on the empty list parse ends with
\* MissingMandatoryParameter or with success.
C20_ScanInsideList ==
  /\ pc = "scan" => i <= Len(args) + 1
  /\ Done /\ args = <<>> => result.kind \in {"MissingMandatoryParameter", "Ok"}

====
